---- MODULE Spec2Model ----
(***************************************************************************)
(* The two runs of the promis-preprocessing pipeline as state machines.    *)
(*                                                                         *)
(*   SpecIngest   scripts/organize_metadata.py: process_all_dicom_series   *)
(*                walks the discovered series directories, calls           *)
(*                process_dicom_series on each, and keeps the record list, *)
(*                the counters and the log.                                *)
(*   SpecStudies  scripts/process_studies.py: main() reads the metadata    *)
(*                table, select_single_series_per_type consolidates it,    *)
(*                process_and_save_studies resamples study by study.       *)
(*                                                                         *)
(* Python values: None is the record None, a str is Str(s).  A character   *)
(* string whose content matters (a series description) is a sequence of    *)
(* one-character strings, so that str.replace(' ', '') is computed.        *)
(* The decoder (SimpleITK), the file system and the clock are the          *)
(* environment: what they return is drawn with \E; timestamps are left out *)
(* of the log lines; the log file is taken to be writable.                 *)
(***************************************************************************)
EXTENDS Integers, Sequences, FiniteSets

VARIABLES
    \* ---- ingestion run (dicom_processing.process_all_dicom_series)
    pc,                 \* "start" | "loop" | "done" | "raised"
    extractor_found,    \* does `from metadata_extractor import ...` resolve
    total_dirs,         \* len(dicom_dirs)
    handled,            \* loop iterations completed (pbar position)
    path,               \* loop variable: the directory and what is on disk
    result, error,      \* what process_dicom_series returned for path
    metadata,           \* list of records
    stats,              \* {'processed', 'errors', 'warnings'}
    log_file,           \* content of processing_log.txt, a list of lines
    \* ---- study run (process_studies.main)
    pc2,                \* "start" | "processing" | "reported" | "done" | "raised"
    series_to_process,  \* config: ordered mapping label -> slot, as pairs
    reference_series,   \* config: the reference label
    table,              \* series_metadata.parquet as read by main()
    metadata_filtered,  \* DataFrame returned by select_single_series_per_type
    study_pos,          \* groups of metadata_filtered already iterated
    written,            \* output volumes on disk: <<patient, study, slot>>
    printed,            \* value_counts() printed by the zero-study report
    raised              \* the exception that ended main(), or None

ingestVars == <<pc, extractor_found, total_dirs, handled, path, result, error,
                metadata, stats, log_file>>
studyVars == <<pc2, series_to_process, reference_series, table,
               metadata_filtered, study_pos, written, printed, raised>>
vars == <<ingestVars, studyVars>>

\* ------------------------------------------------------------------ bounds
MaxDirs == 2        \* discovered series directories in one run
MaxEntries == 2     \* entries of one series directory
MaxRows == 3        \* rows of the metadata table read by the study run

\* ------------------------------------------------------------ Python values
None == [py |-> "None"]
Str(s) == [py |-> "str", value |-> s]

\* str.replace(' ', ''): removes the space character and nothing else.
StripSpaces(s) == SelectSeq(s, LAMBDA c : c # " ")

\* ------------------------------------------------------------- input sets
Patients == {"P1", "P2"}
StudyOfPatient(p) == IF p = "P1" THEN "S1" ELSE "S2"
Descriptions == { <<"a">>, <<"a", " ">>, <<"a", "\t">> }
Outcomes == {"ok", "load failed", "tag missing"}

\* A discovered directory: os.walk keeps a directory only if it directly
\* holds a file ending in .dcm, so dcm >= 1; `other` counts every other entry
\* (files of other extensions, sub-directories).  The decoder reads the
\* directory's files whatever their extension, so the decoded depth is at
\* most the number of entries.
SeriesDirs ==
    { d \in [dcm : 1..MaxEntries, other : 0..MaxEntries, slices : 1..MaxEntries,
             decode : Outcomes, patient_id : Patients,
             series_description : Descriptions] :
        /\ d.dcm + d.other <= MaxEntries
        /\ d.slices <= d.dcm + d.other }

\* The curated spreadsheet, data rows below the header line.
ExcelRows ==
    << [patient_id |-> "P2", series_description |-> <<"a">>,
        generic_sequence_label |-> "T2"],
       [patient_id |-> "P1", series_description |-> <<"a", " ">>,
        generic_sequence_label |-> "T1"],
       [patient_id |-> "P2", series_description |-> <<"a", "\t">>,
        generic_sequence_label |-> "T2"] >>

\* ---------------------------------------------------- metadata_extraction
load_series_descriptions(rows) ==
    LET stripped == [i \in 1..Len(rows) |->
                        [rows[i] EXCEPT !.series_description =
                            StripSpaces(rows[i].series_description)]]
    IN  SubSeq(stripped, 2, Len(stripped))

series_descriptions == load_series_descriptions(ExcelRows)

\* series_descriptions.loc[(patient_id, key), 'generic_sequence_label'];
\* the empty set stands for KeyError.
Loc(sd, patient_id, key) ==
    { sd[i].generic_sequence_label : i \in
        { j \in 1..Len(sd) : /\ sd[j].patient_id = patient_id
                            /\ sd[j].series_description = key } }

\* Lines 25-32: the lookup with its KeyError fallback.
LookupLabel(sd, patient_id, series_description) ==
    LET hit == Loc(sd, patient_id, StripSpaces(series_description))
    IN  IF hit = {} THEN "unknown" ELSE CHOOSE l \in hit : TRUE

\* len(os.listdir(path)): every entry of the directory.
ListdirCount(d) == d.dcm + d.other

\* An exception leaving a function, with str(e).
Raise(cause) == [py |-> "raise", cause |-> cause]
IsRaise(v) == v.py = "raise"

ExtractedRecord(d, i, label) ==
    [ py |-> "dict",
      patient_id |-> d.patient_id,
      study_id |-> StudyOfPatient(d.patient_id),
      series_description |-> d.series_description,
      generic_sequence_label |-> label,
      num_dicom_files |-> ListdirCount(d),
      num_loaded_slices |-> d.slices,
      folder_path |-> i ]

\* The same function without the try/except around the lookup.
extract_metadata_KeyErrorPropagates(d, i, sd) ==
    IF d.decode = "tag missing"
    THEN Raise("tag missing")
    ELSE IF Loc(sd, d.patient_id, StripSpaces(d.series_description)) = {}
         THEN Raise("KeyError")
         ELSE ExtractedRecord(d, i,
                  LookupLabel(sd, d.patient_id, d.series_description))

\* reader.GetMetaData raises when a tag is absent from the first slice.
extract_metadata_from_reader(d, i, sd) ==
    IF d.decode = "tag missing"
    THEN Raise("tag missing")
    ELSE ExtractedRecord(d, i,
             LookupLabel(sd, d.patient_id, d.series_description))

\* ------------------------------------------------------- dicom_processing
WarningLine(i, num_files, num_slices) ==
    [kind |-> "WARNING", path |-> i, num_files |-> num_files,
     num_slices |-> num_slices]
ErrorLine(i, cause) == [kind |-> "ERROR", path |-> i, cause |-> cause]

\* The same function returning the record of a mismatching series as an error.
process_dicom_series_MismatchIsError(d, i, sd) ==
    IF d.decode = "load failed"
    THEN [result |-> None, error |-> Str(d.decode),
          lines |-> <<ErrorLine(i, d.decode)>>]
    ELSE LET md == extract_metadata_from_reader(d, i, sd)
         IN  IF IsRaise(md) \/ ListdirCount(d) # d.slices
             THEN [result |-> None, error |-> Str("mismatch"),
                   lines |-> <<ErrorLine(i, "mismatch")>>]
             ELSE [result |-> md, error |-> None, lines |-> <<>>]

\* Lines 31-58: what one call returns and the lines it appends to the log.
\* Everything from the load on is inside the try.
process_dicom_series(d, i, sd) ==
    IF d.decode = "load failed"
    THEN [result |-> None, error |-> Str(d.decode),
          lines |-> <<ErrorLine(i, d.decode)>>]
    ELSE LET md == extract_metadata_from_reader(d, i, sd)
             num_files == ListdirCount(d)
             num_slices == d.slices
         IN  IF IsRaise(md)
             THEN [result |-> None, error |-> Str(md.cause),
                   lines |-> <<ErrorLine(i, md.cause)>>]
             ELSE IF num_files # num_slices
             THEN [result |-> md, error |-> Str("warning"),
                   lines |-> <<WarningLine(i, num_files, num_slices)>>]
             ELSE [result |-> md, error |-> None, lines |-> <<>>]

\* The loop body's bookkeeping, lines 91-97.
\* The same bookkeeping with the else branch counting into 'processed'.
AccumulateErrorAsProcessed(md, st, res, err) ==
    IF res # None
    THEN [metadata |-> Append(md, res),
          stats |-> [st EXCEPT
                        !.processed = @ + 1,
                        !.warnings = IF err = Str("warning") THEN @ + 1 ELSE @]]
    ELSE [metadata |-> md, stats |-> [st EXCEPT !.processed = @ + 1]]

Accumulate(md, st, res, err) ==
    IF res # None
    THEN [metadata |-> Append(md, res),
          stats |-> [st EXCEPT
                        !.processed = @ + 1,
                        !.warnings = IF err = Str("warning") THEN @ + 1 ELSE @]]
    ELSE [metadata |-> md, stats |-> [st EXCEPT !.errors = @ + 1]]

BannerLine == [kind |-> "banner"]

\* The same line with the last two counts exchanged.
SummaryLineSwapped(st) ==
    [kind |-> "summary", processed |-> st.processed, errors |-> st.warnings,
     warnings |-> st.errors]

\* Line 111: the "Final stats" line.
SummaryLine(st) ==
    [kind |-> "summary", processed |-> st.processed, errors |-> st.errors,
     warnings |-> st.warnings]

NoPath == [index |-> 0]

InitIngestVars ==
    /\ pc = "start"
    /\ extractor_found \in BOOLEAN
    /\ total_dirs = 0
    /\ handled = 0
    /\ path = NoPath
    /\ result = None
    /\ error = None
    /\ metadata = <<>>
    /\ stats = [processed |-> 0, errors |-> 0, warnings |-> 0]
    /\ log_file = <<>>

\* Lines 63-85: the log is created and the tree is walked.
StartRun ==
    /\ pc = "start"
    /\ \E n \in 0..MaxDirs : total_dirs' = n
    /\ log_file' = <<BannerLine>>
    /\ pc' = "loop"
    /\ UNCHANGED <<extractor_found, handled, path, result, error, metadata,
                   stats, studyVars>>

\* Lines 88-105: one iteration, process_dicom_series included.
ProcessNextDir ==
    /\ pc = "loop"
    /\ handled < total_dirs
    /\ extractor_found
    /\ \E d \in SeriesDirs :
          LET i == handled + 1
              r == process_dicom_series(d, i, series_descriptions)
              acc == Accumulate(metadata, stats, r.result, r.error)
          IN  /\ path' = [index |-> i, dir |-> d]
              /\ result' = r.result
              /\ error' = r.error
              /\ log_file' = log_file \o r.lines
              /\ metadata' = acc.metadata
              /\ stats' = acc.stats
    /\ handled' = handled + 1
    /\ UNCHANGED <<pc, extractor_found, total_dirs, studyVars>>

\* Line 33 stands before the try: when no module metadata_extractor is on
\* the import path, ModuleNotFoundError leaves process_dicom_series and
\* process_all_dicom_series with it.
ImportRaises ==
    /\ pc = "loop"
    /\ handled < total_dirs
    /\ ~extractor_found
    /\ path' = [index |-> handled + 1]
    /\ pc' = "raised"
    /\ UNCHANGED <<extractor_found, total_dirs, handled, result, error,
                   metadata, stats, log_file, studyVars>>

\* Lines 107-113.
FinishRun ==
    /\ pc = "loop"
    /\ handled = total_dirs
    /\ log_file' = Append(log_file, SummaryLine(stats))
    /\ pc' = "done"
    /\ UNCHANGED <<extractor_found, total_dirs, handled, path, result, error,
                   metadata, stats, studyVars>>

IdleStudyVars ==
    /\ pc2 = "idle"
    /\ series_to_process = <<>>
    /\ reference_series = None
    /\ table = <<>>
    /\ metadata_filtered = None
    /\ study_pos = 0
    /\ written = {}
    /\ printed = None
    /\ raised = None

InitIngest == InitIngestVars /\ IdleStudyVars
NextIngest == StartRun \/ ProcessNextDir \/ ImportRaises \/ FinishRun
SpecIngest == InitIngest /\ [][NextIngest]_vars

\* =========================================================================
\* Properties of the ingestion run
\* =========================================================================

\* The iteration just taken handled a directory (ImportRaises handles none).
DirHandled == pc = "loop" /\ handled' = handled + 1
NextDir == path'.dir
CountersStep(dp, de, dw) ==
    /\ stats'.processed = stats.processed + dp
    /\ stats'.errors = stats.errors + de
    /\ stats'.warnings = stats.warnings + dw

\* The step of a failed directory, and what holds of a run that ended.
C3_FailedDirStep ==
    (DirHandled /\ NextDir.decode # "ok")
        => /\ log_file' = Append(log_file, ErrorLine(handled', NextDir.decode))
           /\ CountersStep(0, 1, 0)
           /\ metadata' = metadata
           /\ result' = None
           /\ pc' = "loop"
           /\ total_dirs' = total_dirs
C3_RunGoesOn ==
    /\ pc = "raised" => stats.errors = 0
    /\ pc = "done" => handled = total_dirs

\* C3: when the load or the tag extraction of a directory fails, the loop
\* appends exactly one ERROR line naming the directory and the cause, adds 1
\* to errors, appends no record, leaves processed and warnings alone and
\* stays in the loop with the same list of directories; the run never ends
\* by an exception once a directory has been counted as an error, and a
\* finished run has handled every discovered directory.
C3_ErrorIsolated == [][C3_FailedDirStep]_vars /\ []C3_RunGoesOn

\* A finished run whose first directory failed and whose second one gave a
\* record.
C3_Witness ==
    /\ pc = "done"
    /\ stats.errors = 1
    /\ Len(log_file) >= 2
    /\ log_file[2].kind = "ERROR" /\ log_file[2].path = 1
    /\ Len(metadata) = 1
    /\ metadata[1].folder_path = 2

\* The step of a directory whose entry count differs from its depth.
C4_MismatchStep ==
    (DirHandled /\ NextDir.decode = "ok"
                /\ ListdirCount(NextDir) # NextDir.slices)
        => /\ result' # None
           /\ result'.num_dicom_files # result'.num_loaded_slices
           /\ metadata' = Append(metadata, result')
           /\ CountersStep(1, 0, 1)
           /\ log_file' = Append(log_file,
                  WarningLine(handled', ListdirCount(NextDir), NextDir.slices))

\* C4: a directory that loads and extracts, and whose entry count (the count
\* the code takes, len(os.listdir)) differs from the decoded depth, still has
\* its record appended; warnings and processed each grow by 1, errors does
\* not change, and exactly one WARNING line is appended.
C4_MismatchIsWarning == [][C4_MismatchStep]_vars

C4_Witness ==
    /\ pc = "done"
    /\ stats = [processed |-> 1, errors |-> 0, warnings |-> 1]
    /\ Len(metadata) = 1
    /\ metadata[1].num_dicom_files = 2 /\ metadata[1].num_loaded_slices = 1
    /\ log_file[2].kind = "WARNING"

\* Removal of every whitespace character, the normalisation C5 names.
StripWhitespace(s) == SelectSeq(s, LAMBDA c : c \notin {" ", "\t"})
MissStepEffect ==
    /\ result' # None
    /\ result'.generic_sequence_label = "unknown"
    /\ metadata' = Append(metadata, result')
    /\ stats'.errors = stats.errors
    /\ stats'.warnings = stats.warnings +
           (IF ListdirCount(NextDir) # NextDir.slices THEN 1 ELSE 0)

\* The step of a series whose whitespace-free key misses the table.
C5_AsStatedStep ==
    (DirHandled /\ NextDir.decode = "ok"
       /\ Loc(series_descriptions, NextDir.patient_id,
              StripWhitespace(NextDir.series_description)) = {})
        => MissStepEffect

C5_SpaceKeyStep ==
    (DirHandled /\ NextDir.decode = "ok"
       /\ Loc(series_descriptions, NextDir.patient_id,
              StripSpaces(NextDir.series_description)) = {})
        => MissStepEffect

C9_DcmCountStep ==
    (DirHandled /\ NextDir.decode = "ok")
        => /\ result'.num_dicom_files = NextDir.dcm
           /\ NextDir.dcm = NextDir.slices
                 => (error' = None /\ stats'.warnings = stats.warnings)

\* C9: the count stored as num_dicom_files and compared with the decoded
\* depth is the number of .dcm files of the directory, and a directory with
\* as many .dcm files as decoded slices is a plain success.
C9_CountsDcmFiles == [][C9_DcmCountStep]_vars

\* The counters in a state, and across a step.
C10_Counters ==
    /\ stats.processed + stats.errors = handled
    /\ stats.warnings <= stats.processed
    /\ Len(metadata) = stats.processed
    /\ handled <= total_dirs
    /\ pc = "done" =>
          /\ stats.processed + stats.errors = total_dirs
          /\ log_file[Len(log_file)] =
                [kind |-> "summary", processed |-> stats.processed,
                 errors |-> stats.errors, warnings |-> stats.warnings]
C10_Monotone ==
    /\ stats'.processed >= stats.processed
    /\ stats'.errors >= stats.errors
    /\ stats'.warnings >= stats.warnings

\* C10: processed + errors is the number of directories handled, warnings is
\* at most processed, the record list is as long as processed; no counter
\* decreases; a finished run has handled every discovered directory and its
\* log ends with the summary line carrying the final counts.
C10_CounterInvariant == []C10_Counters /\ [][C10_Monotone]_vars

C10_Witness ==
    /\ pc = "done"
    /\ total_dirs = 2
    /\ stats = [processed |-> 1, errors |-> 1, warnings |-> 1]

\* =========================================================================
\* The study run: scripts/process_studies.py
\* =========================================================================

\* groupby('study_id') yields the groups in sorted key order.
StudyIds == <<"S1", "S2">>
PatientOfStudy(s) == IF s = "S1" THEN "P1" ELSE "P2"
TableLabels == {"T1", "T2", "unknown"}

\* config.yaml: series_to_process in its key order, and reference_series,
\* one of its keys.
SlotT1 == [label |-> "T1", slot |-> "t1"]
SlotT2 == [label |-> "T2", slot |-> "t2"]
SeriesToProcessChoices == { <<SlotT1>>, <<SlotT1, SlotT2>>, <<SlotT2, SlotT1>> }
Keys(stp) == [i \in 1..Len(stp) |-> stp[i].label]
Range(f) == { f[i] : i \in DOMAIN f }
\* series_to_process[label]
SlotOf(stp, label) ==
    stp[CHOOSE i \in 1..Len(stp) : stp[i].label = label].slot

\* A pandas DataFrame: its columns and its rows in order.
Columns == {"patient_id", "study_id", "generic_sequence_label", "folder_path"}
DataFrame(rows) ==
    [columns |-> IF rows = <<>> THEN {} ELSE Columns, rows |-> rows]

\* The tables main() may read: the rows the ingestion run stored, in its
\* order; folder_path is the row's directory, one per row.
Tables ==
    UNION { { [i \in 1..n |->
                 [patient_id |-> PatientOfStudy(f[i][1]), study_id |-> f[i][1],
                  generic_sequence_label |-> f[i][2], folder_path |-> i]] :
              f \in [1..n -> Range(StudyIds) \X TableLabels] } :
            n \in 0..MaxRows }

WithLabel(rows, label) ==
    SelectSeq(rows, LAMBDA r : r.generic_sequence_label = label)

\* The groups of groupby('study_id'): sorted keys, rows in stored order.
GroupBy(rows) ==
    LET present == SelectSeq(StudyIds,
                       LAMBDA s : \E i \in 1..Len(rows) : rows[i].study_id = s)
    IN  [k \in 1..Len(present) |->
            [study_id |-> present[k],
             rows |-> SelectSeq(rows, LAMBDA r : r.study_id = present[k])]]

\* A test comparing every label of the group with the required set.
HasAllRequiredOnly(group_rows, series_types) ==
    { group_rows[i].generic_sequence_label : i \in 1..Len(group_rows) }
        = Range(series_types)

\* Lines 25-31: set(found_types) == set(series_types).
HasAllRequired(group_rows, series_types) ==
    LET found_types == SelectSeq(series_types,
                           LAMBDA t : WithLabel(group_rows, t) # <<>>)
    IN  Range(found_types) = Range(series_types)

\* .iloc[0], lines 51, 58, 77.
iloc_first(seq_group) == seq_group[1]

\* The first row of the type taken where the last one is.
iloc_last_AsFirst(seq_group) == seq_group[1]

\* Line 35: seq_group.iloc[-1].
iloc_last(seq_group) == seq_group[Len(seq_group)]

\* Every row of the type kept instead of one.
SelectedAll(group_rows, seq_type) == WithLabel(group_rows, seq_type)

\* Lines 33-36: what one required type adds to res.
Selected(group_rows, seq_type) ==
    <<iloc_last(WithLabel(group_rows, seq_type))>>

RECURSIVE SelectedOfGroup(_, _)
SelectedOfGroup(group_rows, types) ==
    IF types = <<>> THEN <<>>
    ELSE Selected(group_rows, Head(types))
            \o SelectedOfGroup(group_rows, Tail(types))

RECURSIVE SelectedOfGroups(_, _)
SelectedOfGroups(groups, series_types) ==
    IF groups = <<>> THEN <<>>
    ELSE (IF HasAllRequired(Head(groups).rows, series_types)
          THEN SelectedOfGroup(Head(groups).rows, series_types)
          ELSE <<>>)
            \o SelectedOfGroups(Tail(groups), series_types)

\* Lines 16-38; pd.DataFrame([]) has no columns.
select_single_series_per_type(rows, stp) ==
    DataFrame(SelectedOfGroups(GroupBy(rows), Keys(stp)))

\* metadata['generic_sequence_label'].value_counts()
value_counts(rows) ==
    { <<l, Len(WithLabel(rows, l))>> :
        l \in { rows[i].generic_sequence_label : i \in 1..Len(rows) } }

InitStudyVars ==
    /\ pc2 = "start"
    /\ series_to_process \in SeriesToProcessChoices
    /\ reference_series \in Range(Keys(series_to_process))
    /\ table \in Tables
    /\ metadata_filtered = None
    /\ study_pos = 0
    /\ written = {}
    /\ printed = None
    /\ raised = None

\* main(), lines 118-136: read, filter, print the sizes, report or go on.
\* Line 126 indexes the filtered frame by 'study_id' before line 128 tests
\* its length.
LoadAndFilter ==
    /\ pc2 = "start"
    /\ LET filtered == select_single_series_per_type(table, series_to_process)
       IN  /\ metadata_filtered' = filtered
           /\ IF "study_id" \notin filtered.columns
              THEN /\ pc2' = "raised"
                   /\ raised' = Str("KeyError: 'study_id'")
                   /\ printed' = printed
              ELSE IF Len(filtered.rows) = 0
              THEN /\ pc2' = "reported"
                   /\ printed' = value_counts(table)
                   /\ raised' = raised
              ELSE /\ pc2' = "processing"
                   /\ UNCHANGED <<printed, raised>>
    /\ UNCHANGED <<series_to_process, reference_series, table, study_pos,
                   written, ingestVars>>

\* The calls of one iteration of process_and_save_studies, in order
\* (lines 58-85): a row selection raises IndexError when no row has the
\* label; a load, a resample or a write raises when the decoder or the disk
\* does.
StepsOf(stp, reference) ==
    LET others == SelectSeq(Keys(stp), LAMBDA t : t # reference)
        of(t) == << [op |-> "select", label |-> t],
                    [op |-> "load", label |-> t],
                    [op |-> "resample", label |-> t],
                    [op |-> "write", label |-> t] >>
        RECURSIVE rest(_)
        rest(ts) == IF ts = <<>> THEN <<>> ELSE of(Head(ts)) \o rest(Tail(ts))
    IN  << [op |-> "select", label |-> reference],
           [op |-> "load", label |-> reference],
           [op |-> "write", label |-> reference] >> \o rest(others)

SelectRaises(study_rows, step) ==
    step.op = "select" /\ WithLabel(study_rows, step.label) = <<>>

\* The step can raise: a selection only by IndexError, the others whenever
\* the environment fails.
CanRaise(study_rows, step) ==
    step.op # "select" \/ SelectRaises(study_rows, step)

FilesWritten(g, steps, k, stp) ==
    { <<iloc_first(g.rows).patient_id, g.study_id, SlotOf(stp, steps[j].label)>> :
        j \in { i \in 1..k : steps[i].op = "write" } }

\* One iteration of the loop of process_and_save_studies (lines 47-85): the
\* first k calls succeed; if a call is left, it raises and, there being no
\* try in the loop nor in main(), the exception ends the run.
ProcessStudy ==
    /\ pc2 = "processing"
    /\ LET groups == GroupBy(metadata_filtered.rows)
       IN  /\ study_pos < Len(groups)
           /\ LET g == groups[study_pos + 1]
                  steps == StepsOf(series_to_process, reference_series)
              IN  \E k \in 0..Len(steps) :
                    /\ \A j \in 1..k : ~SelectRaises(g.rows, steps[j])
                    /\ k < Len(steps) => CanRaise(g.rows, steps[k + 1])
                    /\ written' = written \cup
                                    FilesWritten(g, steps, k, series_to_process)
                    /\ IF k = Len(steps)
                       THEN /\ study_pos' = study_pos + 1
                            /\ UNCHANGED <<pc2, raised>>
                       ELSE /\ pc2' = "raised"
                            /\ raised' = Str(steps[k + 1].op)
                            /\ study_pos' = study_pos
    /\ UNCHANGED <<series_to_process, reference_series, table,
                   metadata_filtered, printed, ingestVars>>

\* Line 138, after the loop has run out of groups.
FinishStudies ==
    /\ pc2 = "processing"
    /\ study_pos = Len(GroupBy(metadata_filtered.rows))
    /\ pc2' = "done"
    /\ UNCHANGED <<series_to_process, reference_series, table,
                   metadata_filtered, study_pos, written, printed, raised,
                   ingestVars>>

IdleIngestVars ==
    /\ pc = "idle"
    /\ extractor_found = TRUE
    /\ total_dirs = 0
    /\ handled = 0
    /\ path = NoPath
    /\ result = None
    /\ error = None
    /\ metadata = <<>>
    /\ stats = [processed |-> 0, errors |-> 0, warnings |-> 0]
    /\ log_file = <<>>

InitStudies == InitStudyVars /\ IdleIngestVars
NextStudies == LoadAndFilter \/ ProcessStudy \/ FinishStudies
SpecStudies == InitStudies /\ [][NextStudies]_vars

\* =========================================================================
\* Properties of the study run
\* =========================================================================
Required == Range(Keys(series_to_process))
Filtered == pc2 # "start"
RowsOf(rows, s) == SelectSeq(rows, LAMBDA r : r.study_id = s)
LabelsOf(rows, s) ==
    { rows[i].generic_sequence_label :
        i \in { j \in 1..Len(rows) : rows[j].study_id = s } }
InOutput(s) ==
    \E i \in 1..Len(metadata_filtered.rows) :
        metadata_filtered.rows[i].study_id = s
Complete(s) == LabelsOf(table, s) \cap Required = Required

\* C1: a study is in the output of select_single_series_per_type exactly
\* when the labels of its records, intersected with the required labels,
\* are all the required labels; records of other labels change nothing.
C1_Completeness ==
    Filtered => \A s \in Range(StudyIds) : InOutput(s) <=> Complete(s)

\* One study kept although it also has an 'unknown' record, another one
\* dropped although it has records.
C1_Witness ==
    /\ Filtered
    /\ \E s \in Range(StudyIds) :
          InOutput(s) /\ "unknown" \in LabelsOf(table, s)
    /\ \E s \in Range(StudyIds) :
          ~InOutput(s) /\ LabelsOf(table, s) # {}

\* C2: the record selected for a required label of a kept study is the last
\* record of that study and label in the stored order of the table.
C2_LastWins ==
    Filtered =>
      \A i \in 1..Len(metadata_filtered.rows) :
        LET r == metadata_filtered.rows[i]
        IN  /\ r.generic_sequence_label \in Required
            /\ \E j \in 1..Len(table) :
                 /\ table[j] = r
                 /\ \A k \in (j + 1)..Len(table) :
                      ~(/\ table[k].study_id = r.study_id
                        /\ table[k].generic_sequence_label
                              = r.generic_sequence_label)

\* Two T1 records A, B of one study stored in the order [A, B]: B is kept.
C2_Witness ==
    /\ Filtered
    /\ Len(table) >= 2
    /\ table[1].study_id = table[2].study_id
    /\ table[1].generic_sequence_label = "T1"
    /\ table[2].generic_sequence_label = "T1"
    /\ \E i \in 1..Len(metadata_filtered.rows) :
          metadata_filtered.rows[i] = table[2]
    /\ \A i \in 1..Len(metadata_filtered.rows) :
          metadata_filtered.rows[i] # table[1]

\* The studies whose iteration was entered, the one that raised included.
StudiesEntered == study_pos + (IF pc2 = "raised" THEN 1 ELSE 0)

\* C6: a failure while one study's outputs are produced leaves the other
\* studies to be processed: when the run has ended, every consolidated study
\* has had its iteration.
C6_StudyFailureIsolated ==
    (pc2 \in {"done", "raised"} /\ metadata_filtered.rows # <<>>)
        => StudiesEntered = Len(GroupBy(metadata_filtered.rows))

\* C7: with a non-empty table of which no study is complete, main() ends in
\* the "No studies found" report with the label distribution printed and
\* process_and_save_studies not called.
C7_ZeroStudiesReported ==
    (Filtered /\ Len(table) > 0 /\ \A s \in Range(StudyIds) : ~Complete(s))
        => /\ pc2 = "reported"
           /\ printed = value_counts(table)
           /\ raised = None
           /\ written = {}

\* C8: every study of the output holds len(required) records whose labels
\* are pairwise distinct and are the required labels, so each per-label
\* selection of process_and_save_studies finds exactly one row and none
\* raises IndexError.
C8_OneRecordPerLabel ==
    Filtered =>
      /\ \A s \in Range(StudyIds) :
            InOutput(s) =>
              LET rows == RowsOf(metadata_filtered.rows, s)
              IN  /\ Len(rows) = Len(series_to_process)
                  /\ \A i, j \in 1..Len(rows) :
                        i # j => rows[i].generic_sequence_label
                                    # rows[j].generic_sequence_label
                  /\ LabelsOf(metadata_filtered.rows, s) = Required
                  /\ \A t \in Required : Len(WithLabel(rows, t)) = 1
      /\ raised # Str("select")

\* A run over two required labels that wrote both volumes of a study which
\* had three records.
C8_Witness ==
    /\ pc2 = "done"
    /\ Len(series_to_process) = 2
    /\ Len(table) = 3
    /\ \A i \in 1..3 : table[i].study_id = "S1"
    /\ written = { <<"P1", "S1", "t1">>, <<"P1", "S1", "t2">> }
====
